---- MODULE Spec2Model ----
(***************************************************************************)
(* Model of imitation/policies/replay_buffer_wrapper.py:                   *)
(*   ReplayBufferRewardWrapper         (the delegating replay buffer)      *)
(*   ReplayBufferEntropyRewardWrapper  (the entropy-warmup replay buffer)  *)
(*                                                                         *)
(* One wrapper object is followed from the call of its constructor over    *)
(* its whole lifetime.  Every public operation is one action.  The result  *)
(* of the most recent call (what it returned or raised, and what it asked  *)
(* of its collaborators) is kept in the variable `call`.                   *)
(*                                                                         *)
(* Numbers.  Observations are 1-D integers, so distances are integers.     *)
(* A reward is the pair <<num, den2>> standing for the real number         *)
(* num / sqrt(den2): a plain number v is <<v, 1>>, and an entropy e        *)
(* normalised by running statistics (n, sum, sumsq) is                     *)
(* (e - sum/n) / sqrt(sumsq/n - (sum/n)^2)                                 *)
(*   = <<n*e - sum, n*sumsq - sum*sum>>, with den2 = 0 the division by a   *)
(* zero standard deviation, which the code does not guard.                 *)
(*                                                                         *)
(* Model of imitation/scripts/ingredients/environment.py:                  *)
(*   make_venv, make_rollout_venv      (context managers around a VecEnv)  *)
(*                                                                         *)
(* One `with make_venv() as venv:` statement is followed from the call of  *)
(* the context manager to the end of the statement; its state is the       *)
(* variable `with_stmt`.  EnvSpec is the specification of this part; the   *)
(* wrapper's variables stay as they are before construction there, and     *)
(* `with_stmt` stays NoWith under Spec.                                    *)
(***************************************************************************)
EXTENDS Integers, Sequences, FiniteSets, TLC

\* ---- bounds ------------------------------------------------------------
BufferSize == 2          \* buffer_size: capacity of the circular storage
MaxSamples == 3          \* sample is called at most MaxSamples times
BatchSizes == {1, 2}     \* batch_size arguments of sample
Ks == {1, 2}             \* k arguments of the constructor
MaxVec == 2              \* num_vec is at most MaxVec
MaxBodySteps == 2        \* the body of the with statement steps venv at most this often

VARIABLES
    phase,          \* "new": constructor not yet called; "live"; "failed"
    args,           \* the constructor's arguments
    replay_buffer,  \* self.replay_buffer: <<>> or <<storage>>
    inherited,      \* the wrapper's own arrays, allocated by ReplayBuffer.__init__
    sample_count,   \* self.sample_count
    entropy_stats,  \* self.entropy_stats
    n_sample_calls, \* number of sample invocations started on the wrapper
    call,           \* the most recent call and its outcome
    with_stmt       \* the with statement around make_venv / make_rollout_venv

vars == <<phase, args, replay_buffer, inherited, sample_count, entropy_stats,
          n_sample_calls, call, with_stmt>>

Slots == 0 .. (BufferSize - 1)
NoError == "none"

\* ---- values ------------------------------------------------------------
\* A plain number as a reward value.
Plain(v) == <<v, 1>>

\* The transitions a caller adds: the two steps of a small episodic line
\* environment with states -1, 1 and the terminal state 0.
Transitions ==
    {[obs |-> 0 - 1, next_obs |-> 1, action |-> 1, reward |-> 5, done |-> 0],
     [obs |-> 1, next_obs |-> 0, action |-> 0, reward |-> 7, done |-> 1]}

\* A tensor: shape and flat data.
Tensor(shape, data) == [shape |-> shape, data |-> data]

\* ---- the reward function (injected collaborator) -------------------------
\* reward_fn(state, action, next_state, done) on arrays, one reward per row.
\* It is opaque to the wrapper; the model takes an injective one, so that a
\* reward tells which inputs it was computed from.
reward_fn(input) ==
    Tensor(<<Len(input.state.data)>>,
           [j \in 1 .. Len(input.state.data) |->
               Plain(1000 + 100 * input.state.data[j] + 10 * input.next_state.data[j]
                          + 2 * input.action.data[j] + input.done.data[j])])

\* ---- the underlying storage (stable_baselines3 ReplayBuffer) -------------
ZeroArray == [i \in Slots |-> 0]

NewStorage ==
    [observations |-> ZeroArray,
     next_observations |-> ZeroArray,
     actions |-> ZeroArray,
     rewards |-> ZeroArray,
     dones |-> ZeroArray,
     pos |-> 0,
     full |-> FALSE]

\* ReplayBuffer.add: write at the cursor, advance, wrap and set full.
storage_add(rb, t) ==
    LET p == rb.pos
        q == p + 1
    IN  [observations |-> [rb.observations EXCEPT ![p] = t.obs],
         next_observations |-> [rb.next_observations EXCEPT ![p] = t.next_obs],
         actions |-> [rb.actions EXCEPT ![p] = t.action],
         rewards |-> [rb.rewards EXCEPT ![p] = t.reward],
         dones |-> [rb.dones EXCEPT ![p] = t.done],
         pos |-> IF q = BufferSize THEN 0 ELSE q,
         full |-> IF q = BufferSize THEN TRUE ELSE rb.full]

\* Number of slots ReplayBuffer.sample draws from.
upper_bound(rb) == IF rb.full THEN BufferSize ELSE rb.pos

\* The index vectors ReplayBuffer.sample can draw for a batch size.
batch_inds(rb, batch_size) ==
    IF upper_bound(rb) = 0 THEN {<<>>}
    ELSE [1 .. batch_size -> 0 .. (upper_bound(rb) - 1)]

\* ReplayBufferSamples assembled by the storage for drawn indices.
storage_get_samples(rb, inds) ==
    LET b == Len(inds)
    IN  [observations |-> Tensor(<<b, 1>>, [j \in 1 .. b |-> rb.observations[inds[j]]]),
         actions |-> Tensor(<<b, 1>>, [j \in 1 .. b |-> rb.actions[inds[j]]]),
         next_observations |->
             Tensor(<<b, 1>>, [j \in 1 .. b |-> rb.next_observations[inds[j]]]),
         dones |-> Tensor(<<b, 1>>, [j \in 1 .. b |-> rb.dones[inds[j]]]),
         rewards |-> Tensor(<<b, 1>>, [j \in 1 .. b |-> Plain(rb.rewards[inds[j]])])]

\* ReplayBuffer.sample: fails on an empty buffer, else returns the drawn batch.
storage_sample(rb, inds) ==
    IF upper_bound(rb) = 0
    THEN [raised |-> "ValueError", value |-> <<>>]
    ELSE [raised |-> NoError, value |-> <<storage_get_samples(rb, inds)>>]

\* ---- helpers of imitation.util.util -------------------------------------
RECURSIVE SumSeq(_)
SumSeq(xs) == IF xs = <<>> THEN 0 ELSE Head(xs) + SumSeq(Tail(xs))

Abs(x) == IF x < 0 THEN 0 - x ELSE x

\* The k-th smallest element of a non-empty sequence of numbers, k <= Len(ds).
KthSmallest(ds, k) ==
    CHOOSE d \in {ds[i] : i \in 1 .. Len(ds)} :
        /\ Cardinality({i \in 1 .. Len(ds) : ds[i] < d}) < k
        /\ Cardinality({i \in 1 .. Len(ds) : ds[i] <= d}) >= k

\* util.compute_state_entropy(obs, all_obs, k): for each row of obs the
\* distance to its k-th nearest neighbour among all_obs.  Fewer than k
\* neighbours is an error.
compute_state_entropy(obs, all_obs, k) ==
    IF Len(all_obs) < k
    THEN [raised |-> "RuntimeError", value |-> <<>>]
    ELSE [raised |-> NoError,
          value |-> [j \in 1 .. Len(obs) |->
                        KthSmallest([i \in 1 .. Len(all_obs) |-> Abs(obs[j] - all_obs[i])], k)]]

\* util.RunningMeanAndVar(shape=(1,)): the statistics of the stream seen so
\* far, kept as count, sum and sum of squares.
NewRunningMeanAndVar == [n |-> 0, sum |-> 0, sumsq |-> 0]

\* RunningMeanAndVar.update(batch)
stats_update(stats, xs) ==
    [n |-> stats.n + Len(xs),
     sum |-> stats.sum + SumSeq(xs),
     sumsq |-> stats.sumsq + SumSeq([j \in 1 .. Len(xs) |-> xs[j] * xs[j]])]

\* (x - stats.mean) / stats.std as <<num, den2>>
normalize(stats, x) ==
    <<stats.n * x - stats.sum, stats.n * stats.sumsq - stats.sum * stats.sum>>

\* util.safe_to_tensor(x).reshape(shape): same data, the given shape.
reshape(t, shape) == Tensor(shape, t.data)

\* ---- ReplayBufferRewardWrapper -------------------------------------------
\* Variant of samples_to_reward_fn_input: state and next_state exchanged.
samples_to_reward_fn_input_swapped(samples) ==
    [state |-> samples.next_observations,
     action |-> samples.actions,
     next_state |-> samples.observations,
     done |-> samples.dones]

\* _samples_to_reward_fn_input: the keyword arguments of reward_fn.
samples_to_reward_fn_input(samples) ==
    [state |-> samples.observations,
     action |-> samples.actions,
     next_state |-> samples.next_observations,
     done |-> samples.dones]

\* ReplayBufferSamples(observations, actions, next_observations, dones, rewards)
ReplayBufferSamples(observations, actions, next_observations, dones, rewards) ==
    [observations |-> observations,
     actions |-> actions,
     next_observations |-> next_observations,
     dones |-> dones,
     rewards |-> rewards]

\* The arrays ReplayBuffer.__init__ allocates on the wrapper itself.
NewInherited ==
    [observations |-> ZeroArray,
     next_observations |-> ZeroArray,
     actions |-> ZeroArray,
     rewards |-> ZeroArray,
     dones |-> ZeroArray]

\* Variant of pos_get: a copy of the cursor taken at construction.
pos_get_stale(rb) == 0

\* property pos / full: getters and setters, all on self.replay_buffer.
pos_get(rb) == rb.pos
pos_set(rb, pos) == [rb EXCEPT !.pos = pos]
full_get(rb) == rb.full
full_set(rb, full) == [rb EXCEPT !.full = full]

\* Variant of RewardWrapper_init: the observation space is not checked.
RewardWrapper_init_unchecked_space(a) ==
    IF a.replay_buffer_class # "ReplayBuffer"
    THEN [raised |-> "AssertionError", replay_buffer |-> <<>>, inherited |-> <<>>]
    ELSE [raised |-> NoError,
          replay_buffer |-> <<NewStorage>>,
          inherited |-> <<NewInherited>>]

\* ReplayBufferRewardWrapper.__init__: two assertions, then the delegate is
\* built, then the base-class constructor allocates the wrapper's own arrays
\* and assigns pos = 0 and full = False through the property setters.
RewardWrapper_init(a) ==
    IF a.replay_buffer_class # "ReplayBuffer"
    THEN [raised |-> "AssertionError", replay_buffer |-> <<>>, inherited |-> <<>>]
    ELSE IF a.observation_space = "Dict"
    THEN [raised |-> "AssertionError", replay_buffer |-> <<>>, inherited |-> <<>>]
    ELSE [raised |-> NoError,
          replay_buffer |-> <<full_set(pos_set(NewStorage, 0), FALSE)>>,
          inherited |-> <<NewInherited>>]

\* Variant of relabel: a failure of the reward function is caught and the
\* drawn batch is returned as it is.
relabel_swallows(samples, rf_fails) ==
    IF rf_fails
    THEN [raised |-> NoError, value |-> <<samples>>]
    ELSE [raised |-> NoError,
          value |-> <<ReplayBufferSamples(
                         samples.observations,
                         samples.actions,
                         samples.next_observations,
                         samples.dones,
                         reshape(reward_fn(samples_to_reward_fn_input(samples)),
                                 samples.rewards.shape))>>]

\* Variant of relabel: the observation fields are passed in exchanged positions.
relabel_misplaced(samples, rf_fails) ==
    IF rf_fails
    THEN [raised |-> "RewardFnError", value |-> <<>>]
    ELSE [raised |-> NoError,
          value |-> <<ReplayBufferSamples(
                         samples.next_observations,
                         samples.actions,
                         samples.observations,
                         samples.dones,
                         reshape(reward_fn(samples_to_reward_fn_input(samples)),
                                 samples.rewards.shape))>>]

\* ReplayBufferRewardWrapper.sample, after the draw: the reward function is
\* called on the drawn batch and its result replaces the reward field.
\* rf_fails: the reward function raises on this call.
relabel(samples, rf_fails) ==
    IF rf_fails
    THEN [raised |-> "RewardFnError", value |-> <<>>]
    ELSE
    LET rewards == reward_fn(samples_to_reward_fn_input(samples))
        shape == samples.rewards.shape
        rewards_th == reshape(rewards, shape)
    IN  [raised |-> NoError,
         value |-> <<ReplayBufferSamples(samples.observations,
                                         samples.actions,
                                         samples.next_observations,
                                         samples.dones,
                                         rewards_th)>>]

\* ReplayBufferRewardWrapper.sample: draw from the delegate, relabel.
RewardWrapper_sample(rb, inds, rf_fails) ==
    LET drawn == storage_sample(rb, inds)
    IN  IF drawn.raised # NoError
        THEN [raised |-> drawn.raised, value |-> <<>>, drawn |-> <<>>,
              storage_samples |-> 1, reward_fn_calls |-> 0]
        ELSE
        LET samples == drawn.value[1]
            labelled == relabel(samples, rf_fails)
        IN  [raised |-> labelled.raised, value |-> labelled.value,
             drawn |-> <<samples>>,
             storage_samples |-> 1, reward_fn_calls |-> 1]

\* Variant of RewardWrapper_add: the reward is relabelled when it is stored.
RewardWrapper_add_relabels(rb, own, t, storage_fails) ==
    LET input == [state |-> Tensor(<<1, 1>>, <<t.obs>>),
                  action |-> Tensor(<<1, 1>>, <<t.action>>),
                  next_state |-> Tensor(<<1, 1>>, <<t.next_obs>>),
                  done |-> Tensor(<<1, 1>>, <<t.done>>)]
        u == [t EXCEPT !.reward = reward_fn(input).data[1][1]]
    IN  IF storage_fails
        THEN [raised |-> "StorageAddError", replay_buffer |-> rb, inherited |-> own,
              storage_adds |-> 1, forwarded |-> <<u>>, reward_fn_calls |-> 1]
        ELSE [raised |-> NoError, replay_buffer |-> storage_add(rb, u), inherited |-> own,
              storage_adds |-> 1, forwarded |-> <<u>>, reward_fn_calls |-> 1]

\* Variant of RewardWrapper_add: the transition is written with the inherited
\* add, into the wrapper's own arrays at the cursor, which then advances.
RewardWrapper_add_inherited(rb, own, t, storage_fails) ==
    LET written == storage_add(rb, t)
    IN  [raised |-> NoError,
         replay_buffer |-> [rb EXCEPT !.pos = written.pos, !.full = written.full],
         inherited |-> [observations |-> [own.observations EXCEPT ![rb.pos] = t.obs],
                        next_observations |-> [own.next_observations EXCEPT ![rb.pos] = t.next_obs],
                        actions |-> [own.actions EXCEPT ![rb.pos] = t.action],
                        rewards |-> [own.rewards EXCEPT ![rb.pos] = t.reward],
                        dones |-> [own.dones EXCEPT ![rb.pos] = t.done]],
         storage_adds |-> 0, forwarded |-> <<>>, reward_fn_calls |-> 0]

\* ReplayBufferRewardWrapper.add: forward to the delegate; the wrapper's own
\* arrays (own) are not part of the call.
\* storage_fails: the delegate's add raises on this call.
RewardWrapper_add(rb, own, t, storage_fails) ==
    IF storage_fails
    THEN [raised |-> "StorageAddError", replay_buffer |-> rb, inherited |-> own,
          storage_adds |-> 1, forwarded |-> <<t>>, reward_fn_calls |-> 0]
    ELSE [raised |-> NoError, replay_buffer |-> storage_add(rb, t), inherited |-> own,
          storage_adds |-> 1, forwarded |-> <<t>>, reward_fn_calls |-> 0]

\* Variant of RewardWrapper_get_samples: the delegate's batch assembly is used.
RewardWrapper_get_samples_delegates(rb) ==
    [raised |-> NoError, value |-> <<storage_get_samples(rb, <<0>>)>>,
     replay_buffer |-> rb]

\* ReplayBufferRewardWrapper._get_samples
RewardWrapper_get_samples(rb) ==
    [raised |-> "NotImplementedError", value |-> <<>>, replay_buffer |-> rb]

\* ---- ReplayBufferEntropyRewardWrapper ------------------------------------
\* ReplayBufferEntropyRewardWrapper.__init__ after the base constructor.
EntropyWrapper_init(a) ==
    LET base == RewardWrapper_init(a)
    IN  IF base.raised # NoError
        THEN [raised |-> base.raised, replay_buffer |-> base.replay_buffer,
              inherited |-> base.inherited, sample_count |-> 0, entropy_stats |-> <<>>]
        ELSE [raised |-> NoError, replay_buffer |-> base.replay_buffer,
              inherited |-> base.inherited, sample_count |-> 0,
              entropy_stats |-> <<NewRunningMeanAndVar>>]

\* self.observations (full) or self.observations[: self.pos]
all_obs_of(own, rb) ==
    LET n == IF full_get(rb) THEN BufferSize ELSE pos_get(rb)
    IN  [j \in 1 .. n |-> own.observations[j - 1]]

\* Variant of warmup_over: true only on the call right after the budget.
warmup_over_once(count, a) == count = a.entropy_as_reward_samples + 1

\* Variant of warmup_over: >= in place of >.
warmup_over_ge(count, a) == count >= a.entropy_as_reward_samples

\* self.sample_count > self.entropy_as_reward_samples
warmup_over(count, a) == count > a.entropy_as_reward_samples

\* ReplayBufferSamples(..., entropies_th): the drawn batch with the
\* normalised entropies as its reward field.
entropy_labelled(samples, entropies, stats) ==
    LET normed == Tensor(<<Len(entropies)>>,
                         [j \in 1 .. Len(entropies) |-> normalize(stats, entropies[j])])
        entropies_th == reshape(normed, samples.rewards.shape)
    IN  ReplayBufferSamples(samples.observations,
                            samples.actions,
                            samples.next_observations,
                            samples.dones,
                            entropies_th)

\* A variant that drops the batch instead of accumulating it.
entropy_stats_update_skipped(stats, entropies) == stats

\* self.entropy_stats.update(entropies): the accumulator takes in the batch
\* of raw entropies.
entropy_stats_update(stats, entropies) ==
    stats_update(stats, entropies)

\* A variant that draws from the storage directly, leaving the reward
\* function out.
super_sample_unlabelled(rb, inds, rf_fails) ==
    LET drawn == storage_sample(rb, inds)
    IN  [raised |-> drawn.raised, value |-> drawn.value, drawn |-> drawn.value,
         storage_samples |-> 1, reward_fn_calls |-> 0]

\* samples = super().sample(*args, **kwargs): the base class's sample.
super_sample(rb, inds, rf_fails) ==
    RewardWrapper_sample(rb, inds, rf_fails)

\* A variant that counts a call only once the base sample has returned.
EntropyWrapper_sample_counts_returns(rb, own, count, stats, a, inds, rf_fails) ==
    LET sc == count + 1
        base == super_sample(rb, inds, rf_fails)
        out == [raised |-> base.raised, value |-> base.value, drawn |-> base.drawn,
                storage_samples |-> base.storage_samples,
                reward_fn_calls |-> base.reward_fn_calls,
                sample_count |-> sc, entropy_stats |-> stats,
                pool |-> <<>>, raw |-> <<>>]
    IN  IF base.raised # NoError THEN [out EXCEPT !.sample_count = count]
        ELSE IF warmup_over(sc, a) THEN out
        ELSE
        LET samples == base.value[1]
            all_obs == all_obs_of(own, rb)
            entropies == compute_state_entropy(samples.observations.data, all_obs, a.k)
        IN  IF entropies.raised # NoError
            THEN [out EXCEPT !.raised = entropies.raised, !.value = <<>>,
                             !.pool = <<all_obs>>]
            ELSE
            LET updated == entropy_stats_update(stats, entropies.value)
            IN  [out EXCEPT
                    !.value = <<entropy_labelled(samples, entropies.value, updated)>>,
                    !.entropy_stats = updated,
                    !.pool = <<all_obs>>,
                    !.raw = <<entropies.value>>]

\* ReplayBufferEntropyRewardWrapper.sample
EntropyWrapper_sample(rb, own, count, stats, a, inds, rf_fails) ==
    LET sc == count + 1
        base == super_sample(rb, inds, rf_fails)
        out == [raised |-> base.raised, value |-> base.value, drawn |-> base.drawn,
                storage_samples |-> base.storage_samples,
                reward_fn_calls |-> base.reward_fn_calls,
                sample_count |-> sc, entropy_stats |-> stats,
                pool |-> <<>>, raw |-> <<>>]
    IN  IF base.raised # NoError THEN out
        ELSE IF warmup_over(sc, a) THEN out
        ELSE
        LET samples == base.value[1]
            all_obs == all_obs_of(own, rb)
            entropies == compute_state_entropy(samples.observations.data, all_obs, a.k)
        IN  IF entropies.raised # NoError
            THEN [out EXCEPT !.raised = entropies.raised, !.value = <<>>,
                             !.pool = <<all_obs>>]
            ELSE
            LET updated == entropy_stats_update(stats, entropies.value)
            IN  [out EXCEPT
                    !.value = <<entropy_labelled(samples, entropies.value, updated)>>,
                    !.entropy_stats = updated,
                    !.pool = <<all_obs>>,
                    !.raw = <<entropies.value>>]

\* ---- imitation/scripts/ingredients/environment.py ---------------------------
\* No with statement in progress.
NoWith ==
    [fn |-> "none", config |-> <<>>, pc |-> "none", venv |-> <<>>,
     body_ran |-> FALSE, body_steps |-> 0, body_exc |-> NoError, raised |-> NoError]

ContextManagers == {"make_venv", "make_rollout_venv"}

\* The captured configuration: num_vec, parallel, max_episode_steps (<<>> is
\* None) and common["log_dir"].
Configs ==
    [num_vec : 1 .. MaxVec, parallel : BOOLEAN,
     max_episode_steps : {<<>>, <<5>>}, log_dir : {"log_dir"}]

\* util.make_vec_env(...): a new vector environment, or an error.
\* fails: environment creation raises on this call.
make_vec_env(n_envs, parallel, max_episode_steps, log_dir, post_wrappers, fails) ==
    IF fails
    THEN [raised |-> "MakeVecEnvError", venv |-> <<>>]
    ELSE [raised |-> NoError,
          venv |-> <<[cls |-> IF parallel THEN "SubprocVecEnv" ELSE "DummyVecEnv",
                      n_envs |-> n_envs,
                      max_episode_steps |-> max_episode_steps,
                      log_dir |-> log_dir,
                      post_wrappers |-> post_wrappers,
                      steps |-> 0,
                      close_calls |-> 0]>>]

\* venv.step(actions), as far as the context manager is concerned.
venv_step(venv) == [venv EXCEPT !.steps = @ + 1]

\* venv.close()
venv_close(venv) == [venv EXCEPT !.close_calls = @ + 1]

\* make_venv up to its yield: the environment is created before the try.
make_venv(cfg, fails) ==
    make_vec_env(cfg.num_vec, cfg.parallel, cfg.max_episode_steps,
                 <<cfg.log_dir>>, <<>>, fails)

\* make_rollout_venv up to its yield: no log directory, RolloutInfoWrapper.
make_rollout_venv(cfg, fails) ==
    make_vec_env(cfg.num_vec, cfg.parallel, cfg.max_episode_steps,
                 <<>>, <<"RolloutInfoWrapper">>, fails)

\* A variant without try ... finally: close is reached only when the body
\* comes back to the generator normally.
yield_venv_unguarded(venv, exc) ==
    [venv |-> IF exc = NoError THEN venv_close(venv) ELSE venv, raised |-> exc]

\* try: yield venv / finally: venv.close().  The body has ended, normally
\* (exc = NoError) or by raising exc: venv is closed and exc, not being
\* caught, goes on to the caller.
yield_venv(venv, exc) ==
    [venv |-> venv_close(venv), raised |-> exc]

\* ---- the state machine ----------------------------------------------------
BaseClass == "ReplayBufferRewardWrapper"
EntropyClass == "ReplayBufferEntropyRewardWrapper"

\* Constructor arguments.  The base class takes neither
\* entropy_as_reward_samples nor k: they are 0 there and never read.
ArgSets ==
    [cls : {BaseClass},
     observation_space : {"Box", "Dict"},
     replay_buffer_class : {"ReplayBuffer", "DictReplayBuffer"},
     entropy_as_reward_samples : {0},
     k : {0}]
    \cup
    [cls : {EntropyClass},
     observation_space : {"Box", "Dict"},
     replay_buffer_class : {"ReplayBuffer", "DictReplayBuffer"},
     entropy_as_reward_samples : 0 .. (MaxSamples - 2),
     k : Ks]

NoCall ==
    [op |-> "none", arg |-> <<>>, fault |-> "none", raised |-> NoError,
     value |-> <<>>, drawn |-> <<>>, pool |-> <<>>, raw |-> <<>>,
     forwarded |-> <<>>, reward_fn_calls |-> 0, storage_adds |-> 0, storage_samples |-> 0]

Init ==
    /\ phase = "new"
    /\ args \in ArgSets
    /\ replay_buffer = <<>>
    /\ inherited = <<>>
    /\ sample_count = 0
    /\ entropy_stats = <<>>
    /\ n_sample_calls = 0
    /\ call = NoCall
    /\ with_stmt = NoWith

\* The constructor call.
Construct ==
    /\ phase = "new"
    /\ \E out \in {IF args.cls = EntropyClass
                   THEN EntropyWrapper_init(args)
                   ELSE RewardWrapper_init(args)
                        @@ [sample_count |-> 0, entropy_stats |-> <<>>]} :
           /\ phase' = IF out.raised = NoError THEN "live" ELSE "failed"
           /\ replay_buffer' = out.replay_buffer
           /\ inherited' = out.inherited
           /\ sample_count' = out.sample_count
           /\ entropy_stats' = out.entropy_stats
           /\ call' = [NoCall EXCEPT !.op = "__init__", !.raised = out.raised]
    /\ UNCHANGED <<with_stmt, args, n_sample_calls>>

\* wrapper.add(transition)
Add ==
    /\ phase = "live"
    /\ \E t \in Transitions, storage_fails \in BOOLEAN :
          \E out \in {RewardWrapper_add(replay_buffer[1], inherited[1], t, storage_fails)} :
              /\ replay_buffer' = <<out.replay_buffer>>
              /\ inherited' = <<out.inherited>>
              /\ call' = [NoCall EXCEPT !.op = "add", !.arg = <<t>>,
                                        !.fault = IF storage_fails THEN "storage" ELSE "none",
                                        !.raised = out.raised,
                                        !.forwarded = out.forwarded,
                                        !.storage_adds = out.storage_adds,
                                        !.reward_fn_calls = out.reward_fn_calls]
    /\ UNCHANGED <<with_stmt, phase, args, sample_count, entropy_stats, n_sample_calls>>

\* wrapper.sample(batch_size)
Sample ==
    /\ phase = "live"
    /\ n_sample_calls < MaxSamples
    /\ \E batch_size \in BatchSizes, rf_fails \in BOOLEAN :
        \E inds \in batch_inds(replay_buffer[1], batch_size) :
          /\ \E out \in {IF args.cls = EntropyClass
                        THEN EntropyWrapper_sample(replay_buffer[1], inherited[1],
                                                   sample_count, entropy_stats[1],
                                                   args, inds, rf_fails)
                        ELSE RewardWrapper_sample(replay_buffer[1], inds, rf_fails)
                             @@ [sample_count |-> sample_count, entropy_stats |-> <<>>,
                                 pool |-> <<>>, raw |-> <<>>]} :
                 /\ sample_count' = out.sample_count
                 /\ entropy_stats' = IF args.cls = EntropyClass
                                     THEN <<out.entropy_stats>> ELSE entropy_stats
                 /\ call' = [NoCall EXCEPT !.op = "sample", !.arg = <<batch_size>>,
                                           !.fault = IF rf_fails THEN "reward_fn" ELSE "none",
                                           !.raised = out.raised,
                                           !.value = out.value,
                                           !.drawn = IF out.raised = NoError
                                                     THEN out.drawn ELSE <<>>,
                                           !.pool = out.pool,
                                           !.raw = out.raw,
                                           !.storage_samples = out.storage_samples,
                                           !.reward_fn_calls = out.reward_fn_calls]
    /\ n_sample_calls' = n_sample_calls + 1
    /\ UNCHANGED <<with_stmt, phase, args, replay_buffer, inherited>>

\* wrapper.pos
GetPos ==
    /\ phase = "live"
    /\ call' = [NoCall EXCEPT !.op = "pos", !.value = <<pos_get(replay_buffer[1])>>]
    /\ UNCHANGED <<with_stmt, phase, args, replay_buffer, inherited, sample_count,
                   entropy_stats, n_sample_calls>>

\* wrapper.pos = pos
SetPos ==
    /\ phase = "live"
    /\ \E pos \in Slots :
          /\ replay_buffer' = <<pos_set(replay_buffer[1], pos)>>
          /\ call' = [NoCall EXCEPT !.op = "pos=", !.arg = <<pos>>]
    /\ UNCHANGED <<with_stmt, phase, args, inherited, sample_count, entropy_stats, n_sample_calls>>

\* wrapper.full
GetFull ==
    /\ phase = "live"
    /\ call' = [NoCall EXCEPT !.op = "full", !.value = <<full_get(replay_buffer[1])>>]
    /\ UNCHANGED <<with_stmt, phase, args, replay_buffer, inherited, sample_count,
                   entropy_stats, n_sample_calls>>

\* wrapper.full = full
SetFull ==
    /\ phase = "live"
    /\ \E full \in BOOLEAN :
          /\ replay_buffer' = <<full_set(replay_buffer[1], full)>>
          /\ call' = [NoCall EXCEPT !.op = "full=", !.arg = <<full>>]
    /\ UNCHANGED <<with_stmt, phase, args, inherited, sample_count, entropy_stats, n_sample_calls>>

\* wrapper.replay_buffer.pos = pos; wrapper.replay_buffer.full = full:
\* a write made on the underlying storage itself.
StorageWrite ==
    /\ phase = "live"
    /\ \E pos \in Slots, full \in BOOLEAN :
          /\ replay_buffer' = <<[replay_buffer[1] EXCEPT !.pos = pos, !.full = full]>>
          /\ call' = [NoCall EXCEPT !.op = "replay_buffer.pos,full=", !.arg = <<pos, full>>]
    /\ UNCHANGED <<with_stmt, phase, args, inherited, sample_count, entropy_stats, n_sample_calls>>

\* wrapper._get_samples()
GetSamples ==
    /\ phase = "live"
    /\ \E out \in {RewardWrapper_get_samples(replay_buffer[1])} :
           /\ replay_buffer' = <<out.replay_buffer>>
           /\ call' = [NoCall EXCEPT !.op = "_get_samples", !.raised = out.raised,
                                     !.value = out.value]
    /\ UNCHANGED <<with_stmt, phase, args, inherited, sample_count, entropy_stats, n_sample_calls>>

Next ==
    \/ Construct
    \/ Add
    \/ Sample
    \/ GetPos
    \/ SetPos
    \/ GetFull
    \/ SetFull
    \/ StorageWrite
    \/ GetSamples

Spec == Init /\ [][Next]_vars

\* ---- the with statement around a context manager ---------------------------
EnvInit ==
    /\ phase = "new"
    /\ args = <<>>
    /\ replay_buffer = <<>>
    /\ inherited = <<>>
    /\ sample_count = 0
    /\ entropy_stats = <<>>
    /\ n_sample_calls = 0
    /\ call = NoCall
    /\ with_stmt \in {[NoWith EXCEPT !.fn = f, !.config = <<c>>, !.pc = "call"] :
                         f \in ContextManagers, c \in Configs}

\* with make_venv() as venv: the generator runs up to its yield.  When the
\* creation raises, the error leaves the with statement and the body is skipped.
WithEnter ==
    /\ with_stmt.pc = "call"
    /\ \E fails \in BOOLEAN :
          \E out \in {IF with_stmt.fn = "make_venv"
                      THEN make_venv(with_stmt.config[1], fails)
                      ELSE make_rollout_venv(with_stmt.config[1], fails)} :
              with_stmt' = [with_stmt EXCEPT
                               !.venv = out.venv,
                               !.raised = out.raised,
                               !.body_ran = (out.raised = NoError),
                               !.pc = IF out.raised = NoError THEN "body" ELSE "done"]
    /\ UNCHANGED <<phase, args, replay_buffer, inherited, sample_count,
                   entropy_stats, n_sample_calls, call>>

\* The body of the with statement uses venv.
BodyStep ==
    /\ with_stmt.pc = "body"
    /\ with_stmt.body_steps < MaxBodySteps
    /\ with_stmt' = [with_stmt EXCEPT !.venv = <<venv_step(with_stmt.venv[1])>>,
                                      !.body_steps = @ + 1]
    /\ UNCHANGED <<phase, args, replay_buffer, inherited, sample_count,
                   entropy_stats, n_sample_calls, call>>

\* The body ends, normally or by raising, and the generator is resumed at
\* its yield.
WithExit ==
    /\ with_stmt.pc = "body"
    /\ \E exc \in {NoError, "BodyError"} :
          \E out \in {yield_venv(with_stmt.venv[1], exc)} :
              with_stmt' = [with_stmt EXCEPT
                               !.venv = <<out.venv>>,
                               !.body_exc = exc,
                               !.raised = out.raised,
                               !.pc = "done"]
    /\ UNCHANGED <<phase, args, replay_buffer, inherited, sample_count,
                   entropy_stats, n_sample_calls, call>>

EnvNext ==
    \/ WithEnter
    \/ BodyStep
    \/ WithExit

EnvSpec == EnvInit /\ [][EnvNext]_vars

\* ---- properties -----------------------------------------------------------
IsEntropy == args.cls = EntropyClass
IsBase == args.cls = BaseClass
N == args.entropy_as_reward_samples
SampleReturned == call.op = "sample" /\ call.raised = NoError

\* The reward field the base delegating buffer gives a drawn batch.
DelegatedRewards(drawn) ==
    Tensor(drawn.rewards.shape,
           reward_fn([state |-> drawn.observations,
                      action |-> drawn.actions,
                      next_state |-> drawn.next_observations,
                      done |-> drawn.dones]).data)

\* The reward field made of raw entropies normalised by the statistics.
EntropyRewards(drawn, raw, stats) ==
    Tensor(drawn.rewards.shape,
           [j \in 1 .. Len(raw) |-> normalize(stats, raw[j])])

\* C1: on an entropy-warmup buffer with budget N, the i-th sample call that
\* returns a batch returns the normalised entropy reward when i <= N and
\* exactly the delegated reward_fn reward when i >= N + 1 (calls are counted
\* over the buffer's lifetime).
C1_WarmupThenDelegated ==
    (IsEntropy /\ SampleReturned) =>
        IF n_sample_calls <= N
        THEN /\ call.raw # <<>>
             /\ call.value[1].rewards
                  = EntropyRewards(call.drawn[1], call.raw[1], entropy_stats[1])
             /\ call.value[1].rewards # DelegatedRewards(call.drawn[1])
        ELSE /\ call.raw = <<>>
             /\ call.value[1].rewards = DelegatedRewards(call.drawn[1])

\* C1 witness: the first delegated call, right after a non-empty warmup.
C1_Witness ==
    /\ IsEntropy /\ SampleReturned
    /\ N >= 1
    /\ n_sample_calls = N + 1
    /\ entropy_stats[1].n > 0

\* The last warmup call of a non-empty warmup returned a batch.
C1_WitnessWarmup ==
    /\ IsEntropy /\ SampleReturned
    /\ N >= 1
    /\ n_sample_calls = N

\* C2: every batch the base delegating buffer returns has as reward field
\* reward_fn(state, action, next_state, done) of the batch the storage drew
\* in that call, in the shape of the drawn reward field; no stored reward
\* is in it.
C2_RewardIsRewardFn ==
    (IsBase /\ SampleReturned) =>
        /\ \E inds \in batch_inds(replay_buffer[1], call.arg[1]) :
               call.drawn[1] = storage_get_samples(replay_buffer[1], inds)
        /\ call.value[1].rewards = DelegatedRewards(call.drawn[1])
        /\ call.value[1].rewards.shape = call.drawn[1].rewards.shape
        /\ \A j \in 1 .. Len(call.value[1].rewards.data) :
               call.value[1].rewards.data[j] # call.drawn[1].rewards.data[j]

\* C2 witness: a batch of two different stored transitions was relabelled.
C2_Witness ==
    /\ IsBase /\ SampleReturned
    /\ Len(call.drawn[1].observations.data) = 2
    /\ call.drawn[1].observations.data[1] # call.drawn[1].observations.data[2]
    /\ call.drawn[1].rewards.data[1] = Plain(5)

\* C3: every batch sample returns, on either buffer, in warmup and after it,
\* has the state, action, next_state and done fields of the batch the
\* storage drew in that call.
C3_OnlyRewardDiffers ==
    SampleReturned =>
        /\ call.value[1].observations = call.drawn[1].observations
        /\ call.value[1].actions = call.drawn[1].actions
        /\ call.value[1].next_observations = call.drawn[1].next_observations
        /\ call.value[1].dones = call.drawn[1].dones

\* C3 witness: a warmup batch whose observations and next observations differ.
C3_Witness ==
    /\ IsEntropy /\ SampleReturned
    /\ call.raw # <<>>
    /\ call.drawn[1].observations # call.drawn[1].next_observations
    /\ call.value[1].rewards # call.drawn[1].rewards

\* The observations held in the occupied slots of the storage.
OccupiedObservations(rb) ==
    [j \in 1 .. upper_bound(rb) |-> rb.observations[j - 1]]

\* C4: in warmup, the neighbour pool given to the entropy computation is the
\* observations in the occupied slots of the underlying storage: those that
\* add has written.
C4_PoolIsOccupiedObservations ==
    (IsEntropy /\ call.op = "sample" /\ call.pool # <<>>) =>
        call.pool[1] = OccupiedObservations(replay_buffer[1])

\* What reads and writes of pos and full through the wrapper show and do.
C5_State ==
    /\ call.op = "pos" => call.value = <<replay_buffer[1].pos>>
    /\ call.op = "full" => call.value = <<replay_buffer[1].full>>
    /\ call.op = "pos=" => replay_buffer[1].pos = call.arg[1]
    /\ call.op = "full=" => replay_buffer[1].full = call.arg[1]
    /\ (call.op = "sample" /\ call.pool # <<>>) =>
           Len(call.pool[1]) = upper_bound(replay_buffer[1])

\* A read that follows a write returns the value written.
C5_Step ==
    /\ (call.op = "pos=" /\ call'.op = "pos") => call'.value = call.arg
    /\ (call.op = "full=" /\ call'.op = "full") => call'.value = call.arg
    /\ (call.op = "replay_buffer.pos,full=" /\ call'.op = "pos") =>
           call'.value = <<call.arg[1]>>
    /\ (call.op = "replay_buffer.pos,full=" /\ call'.op = "full") =>
           call'.value = <<call.arg[2]>>
    /\ (call.op = "add" /\ call'.op = "pos") => call'.value = <<replay_buffer[1].pos>>

\* C5: pos and full read through the wrapper are the values the underlying
\* storage holds, whatever wrote them; pos and full written through the
\* wrapper are written to the underlying storage; a read after a write
\* returns the value written.
C5_AccessorsProxyStorage == [] C5_State /\ [][C5_Step]_vars

\* C5 witness: pos read through the wrapper after the cursor was moved by a
\* write, not by add (slot 0 was never written).
C5_Witness ==
    /\ call.op = "pos"
    /\ call.value[1] > 0
    /\ replay_buffer[1].observations[0] = 0

\* One step of an entropy-warmup buffer: the counter does not decrease; a
\* returned delegated reward means the counter is above N; a sample call
\* made with the counter above N gives no entropy reward.
C6_Step ==
    /\ sample_count' >= sample_count
    /\ (IsEntropy /\ SampleReturned /\ call.raw = <<>>) => sample_count > N
    /\ (IsEntropy /\ sample_count > N /\ call'.op = "sample"
            /\ n_sample_calls' # n_sample_calls) =>
           /\ call'.raw = <<>>
           /\ call'.raised = NoError =>
                  call'.value[1].rewards = DelegatedRewards(call'.drawn[1])

\* C6: the sample counter never decreases, and once a sample call has
\* returned the delegated reward no later sample call returns an entropy
\* reward.
C6_WarmupIsOneWay == [][C6_Step]_vars

\* C6 witness: a second delegated call after a non-empty warmup.
C6_Witness ==
    /\ IsEntropy /\ SampleReturned
    /\ N >= 1
    /\ sample_count = N + 2
    /\ entropy_stats[1].n > 0

BadArgs ==
    \/ args.observation_space = "Dict"
    \/ args.replay_buffer_class # "ReplayBuffer"

\* C7: once the constructor has been called with a dictionary observation
\* space or a class other than ReplayBuffer, it has raised an assertion
\* error, no underlying storage and no wrapper arrays exist, and no call on
\* the wrapper has happened since.
C7_ConstructionFailsFast ==
    (phase # "new" /\ BadArgs) =>
        /\ phase = "failed"
        /\ call.op = "__init__"
        /\ call.raised = "AssertionError"
        /\ replay_buffer = <<>>
        /\ inherited = <<>>
        /\ entropy_stats = <<>>

\* C7 witness: construction failed on the dictionary observation space alone.
C7_Witness ==
    /\ phase = "failed"
    /\ args.observation_space = "Dict"
    /\ args.replay_buffer_class = "ReplayBuffer"

\* C8: a call of _get_samples raises NotImplementedError, returns nothing
\* and changes neither the storage (with pos and full), nor the sample
\* counter, nor the running statistics.
C8_GetSamplesRaises ==
    [][call'.op = "_get_samples" =>
          /\ call'.raised = "NotImplementedError"
          /\ call'.value = <<>>
          /\ UNCHANGED <<replay_buffer, inherited, sample_count, entropy_stats>>]_vars

\* C8 witness: _get_samples was called on a buffer that holds transitions
\* and has sampled.
C8_Witness ==
    /\ call.op = "_get_samples"
    /\ upper_bound(replay_buffer[1]) > 0
    /\ replay_buffer[1].observations[0] # 0
    /\ n_sample_calls > 0

\* C9: the error of a failing storage sample, reward function or storage add
\* is the error the wrapper's call raises, and a call that raises returns no
\* batch.
C9_ErrorsPropagate ==
    /\ (call.op = "sample" /\ upper_bound(replay_buffer[1]) = 0) =>
           call.raised = "ValueError"
    /\ (call.op = "sample" /\ upper_bound(replay_buffer[1]) > 0
            /\ call.fault = "reward_fn") =>
           call.raised = "RewardFnError"
    /\ (call.op = "add" /\ call.fault = "storage") => call.raised = "StorageAddError"
    /\ call.raised # NoError => call.value = <<>>
    /\ (call.op = "sample" /\ call.value # <<>>) =>
           /\ call.fault = "none"
           /\ call.value[1].rewards # call.drawn[1].rewards

\* C9 witness: the reward function failed in a sample call of an
\* entropy-warmup buffer during warmup.
C9_Witness ==
    /\ IsEntropy
    /\ call.op = "sample"
    /\ call.fault = "reward_fn"
    /\ call.raised = "RewardFnError"
    /\ sample_count <= N

\* What one add call does.
C10_Step ==
    call'.op = "add" =>
        /\ UNCHANGED <<phase, args, inherited, sample_count, entropy_stats, n_sample_calls>>
        /\ call'.storage_adds = 1
        /\ call'.forwarded = call'.arg
        /\ call'.reward_fn_calls = 0
        /\ call'.raised = NoError =>
               /\ replay_buffer'[1] = storage_add(replay_buffer[1], call'.arg[1])
               /\ replay_buffer'[1].rewards[replay_buffer[1].pos] = call'.arg[1].reward

\* C10: add forwards its arguments as they are to the storage's add, once,
\* calls no reward function, stores the reward it was given, and changes
\* nothing but the underlying storage.
C10_AddIsPassThrough == [][C10_Step]_vars

\* C10 witness: a successful add on an entropy-warmup buffer whose counter
\* and statistics have already moved.
C10_Witness ==
    /\ IsEntropy
    /\ call.op = "add" /\ call.raised = NoError
    /\ sample_count > 0
    /\ entropy_stats[1].n > 0

\* The distance from x to its k-th nearest neighbour among pool.
KthNearestDistance(x, pool, k) ==
    KthSmallest([i \in 1 .. Len(pool) |-> Abs(x - pool[i])], k)

\* C11: in warmup, the raw entropy of each element of the returned batch is
\* the distance from that element's sampled next-state to its k-th nearest
\* neighbour among the observations in the occupied slots of the storage,
\* with k the value given at construction.
C11_RawEntropyIsNextStateKnn ==
    (IsEntropy /\ SampleReturned /\ call.raw # <<>>) =>
        \A j \in 1 .. Len(call.raw[1]) :
            call.raw[1][j]
              = KthNearestDistance(call.drawn[1].next_observations.data[j],
                                   OccupiedObservations(replay_buffer[1]), args.k)

\* The accumulator exists exactly from construction of an entropy buffer on.
C12_State ==
    /\ phase = "new" => entropy_stats = <<>>
    /\ (phase = "live" /\ IsEntropy) => entropy_stats # <<>>

\* One step of the buffer, as far as the accumulator is concerned.
C12_Step ==
    /\ (phase = "new" /\ phase' = "live" /\ IsEntropy) =>
           entropy_stats' = <<NewRunningMeanAndVar>>
    /\ (phase = "live" /\ IsEntropy) =>
           IF call'.op = "sample" /\ call'.raised = NoError /\ n_sample_calls' <= N
           THEN /\ call'.raw # <<>>
                /\ call'.raw[1]
                     = compute_state_entropy(call'.drawn[1].observations.data,
                                             call'.pool[1], args.k).value
                /\ entropy_stats'[1] = stats_update(entropy_stats[1], call'.raw[1])
                /\ entropy_stats'[1].n = entropy_stats[1].n + Len(call'.raw[1])
           ELSE entropy_stats' = entropy_stats

\* C12: the running accumulator is created once, at construction; each
\* warmup sample call that returns a batch (calls 1..N) updates it exactly
\* once, with that call's raw entropies as they are before normalisation; it
\* is never reset, and every steady-state sample call, every failed call and
\* every add leave it unchanged.
C12_AccumulatorUpdatedByWarmupOnly == [] C12_State /\ [][C12_Step]_vars

\* C12 witness: a warmup call returned a batch of two and the accumulator
\* holds exactly these two raw entropies.
C12_Witness ==
    /\ IsEntropy /\ SampleReturned
    /\ call.raw # <<>>
    /\ Len(call.raw[1]) = 2
    /\ entropy_stats[1] = stats_update(NewRunningMeanAndVar, call.raw[1])

C14_CounterCountsInvocations ==
    /\ phase = "new" => sample_count = 0
    /\ (IsEntropy /\ phase = "live") => sample_count = n_sample_calls

\* C14 witness: a sample call on an entropy-warmup buffer failed after an
\* earlier one, and both are counted.
C14_Witness ==
    /\ IsEntropy /\ call.op = "sample"
    /\ call.raised \in {"ValueError", "RewardFnError"}
    /\ n_sample_calls = 2
    /\ sample_count = 2

\* C15: the wrapper's own arrays, allocated by the inherited constructor, are
\* a storage apart from the delegate's; no operation writes them, add least
\* of all, so they hold their initial contents as long as the object lives,
\* and the transitions given to add are in the delegate's arrays only.
C15_State ==
    phase = "live" =>
        /\ inherited = <<NewInherited>>
        /\ \A f \in {"observations", "next_observations", "actions", "rewards", "dones"} :
               \A i \in Slots : inherited[1][f][i] = 0

\* An add that returns changes the delegate and not the wrapper's own arrays.
C15_Step ==
    (call'.op = "add" /\ call'.raised = NoError) =>
        /\ inherited' = inherited
        /\ replay_buffer'[1].observations[replay_buffer[1].pos] = call'.arg[1].obs
        /\ replay_buffer' # replay_buffer

C15_OwnArraysNeverWritten == [] C15_State /\ [][C15_Step]_vars

\* C15 witness: add has filled the delegate with transitions while the
\* wrapper's own arrays still hold their initial contents.
C15_Witness ==
    /\ phase = "live"
    /\ call.op = "add" /\ call.raised = NoError
    /\ replay_buffer[1].full
    /\ \A i \in Slots : replay_buffer[1].observations[i] # 0
    /\ inherited[1].observations = ZeroArray

\* C16: of a with statement around make_venv or make_rollout_venv.  When the
\* creation of the vector environment succeeds, close is called on it exactly
\* once, at the end of the statement and not before, whether the body ends
\* normally or raises, and what the body raised leaves the statement.  When
\* the creation fails, its error leaves the statement, the body does not
\* run and there is nothing close is called on.
C16_ClosedExactlyOnce ==
    /\ with_stmt.pc = "call" =>
           with_stmt.venv = <<>> /\ ~with_stmt.body_ran
    /\ with_stmt.pc = "body" =>
           /\ with_stmt.body_ran
           /\ with_stmt.venv # <<>>
           /\ with_stmt.venv[1].close_calls = 0
    /\ with_stmt.pc = "done" =>
           IF with_stmt.body_ran
           THEN /\ with_stmt.venv # <<>>
                /\ with_stmt.venv[1].close_calls = 1
                /\ with_stmt.raised = with_stmt.body_exc
           ELSE /\ with_stmt.venv = <<>>
                /\ with_stmt.body_steps = 0
                /\ with_stmt.raised = "MakeVecEnvError"

\* C16 witness: the body used the environment and raised; the environment
\* is closed once and the body's error has left the statement.
C16_Witness ==
    /\ with_stmt.pc = "done"
    /\ with_stmt.body_steps > 0
    /\ with_stmt.body_exc = "BodyError"
    /\ with_stmt.raised = "BodyError"
    /\ with_stmt.venv[1].close_calls = 1

\* The creation failed: the statement is over without a body or a close.
C16_WitnessCreationFails ==
    /\ with_stmt.pc = "done"
    /\ with_stmt.raised = "MakeVecEnvError"
    /\ with_stmt.venv = <<>>

====
